---- MODULE Spec2Model ----
(***************************************************************************)
(* Model of the motion-controlled runner: the gesture classifier of        *)
(* src/utils/gameUtils.ts (detectGesture / resetGestureState), the game    *)
(* loop of src/components/GameEngine.tsx (init effect, animate,            *)
(* updateGameLogic, input effect) and the session commands of src/App.tsx. *)
(*                                                                         *)
(* Number representation.  JavaScript numbers are modelled as exact        *)
(* values (no floating-point rounding):                                    *)
(*   - times are integers in ms (performance.now(), rAF timestamps);       *)
(*   - landmark coordinates are integers in 1/100 of the normalised        *)
(*     screen; torso-Y and the baseline are exact rationals                *)
(*     <<num, den>> of that unit;                                          *)
(*   - speed is kept in 1/50 units (SpeedScale), z in 1/50000 units        *)
(*     (ZScale), height in 1/HeightScale units.                            *)
(***************************************************************************)
EXTENDS Integers, Sequences, FiniteSets, TLC

\* ------------------------------------------------------------------------
\* GAME_CONSTANTS (src/utils/gameUtils.ts:173-199)
\* ------------------------------------------------------------------------
\* JUMP_HEIGHT: 3.5, in tenths
JUMP_HEIGHT == 35
\* JUMP_DURATION: 0.7 s, in ms
JUMP_DURATION == 700
START_SPEED == 15
MAX_SPEED == 40
SPAWN_DISTANCE == -60
\* SPAWN_INTERVAL_BASE: 1.5 s, in ms (the code multiplies it by 1000)
SPAWN_INTERVAL_BASE == 1500
LANE_CHANGE_COOLDOWN == 400
JUMP_COOLDOWN == 800
\* LEAN_THRESHOLD_LEFT: 0.60, LEAN_THRESHOLD_RIGHT: 0.40, JUMP_THRESHOLD_Y: 0.05,
\* in 1/100
LEAN_THRESHOLD_LEFT == 60
LEAN_THRESHOLD_RIGHT == 40
JUMP_THRESHOLD_Y == 5
INVINCIBILITY_DURATION == 2000

\* Literals of detectGesture (src/utils/gameUtils.ts:130-138)
\* hipYHistory.length < 30
CalibrationSamples == 30
\* Math.abs(currentY - baselineHipY) < 0.05, in 1/100
DriftBand == 5
\* baselineHipY += (currentY - baselineHipY) * 0.05, i.e. 1/20 of the difference
DriftDivisor == 20

\* Literals of GameEngine.tsx and App.tsx
\* START_SPEED + (scoreRef.current / 50), GameEngine.tsx:735
ScorePerSpeedUnit == 50
\* (SPAWN_INTERVAL_BASE * 1000) / (speedRef.current / 15), GameEngine.tsx:840
SpawnSpeedBase == 15
\* ... / (speedRef.current / 15) / 8, GameEngine.tsx:809
DecorIntervalDivisor == 8
\* if (dec.z > 20), GameEngine.tsx:824
DecorCullZ == 20
\* if (obs.z > -1 && obs.z < 1), GameEngine.tsx:856
HitWindow == 1
\* if (player.yPosition < 1.1), in tenths, GameEngine.tsx:859
JumpClearance == 11
\* if (obs.z > 5), GameEngine.tsx:879
PassedZ == 5
\* scoreRef.current += 10, GameEngine.tsx:881
ScorePerObstacle == 10
\* lives: 3, App.tsx:16 and 28
InitialLives == 3
\* Math.floor(Math.random() * 3), GameEngine.tsx:703
LaneCount == 3

\* speed is kept in 1/SpeedScale units, so that START_SPEED + score / 50 is an
\* integer for every integer score
SpeedScale == ScorePerSpeedUnit

\* z is kept in 1/ZScale units: speed (1/SpeedScale per s) times dt (ms)
ZScale == SpeedScale * 1000

\* yPosition is kept in 1/HeightScale units: JUMP_HEIGHT (tenths) times
\* 4 * t * (1 - t) with t = p / JUMP_DURATION
HeightScale == 10 * JUMP_DURATION * JUMP_DURATION

\* MediaPipe landmark indices read by detectGesture (gameUtils.ts:120-124)
NOSE == 0
LEFT_SHOULDER == 11
RIGHT_SHOULDER == 12
LEFT_HIP == 23
RIGHT_HIP == 24

\* ------------------------------------------------------------------------
\* Exact rationals <<n, d>>, d > 0, in lowest terms.  An operand used more
\* than once is bound as the element of a singleton set (CHOOSE r \in {e(x) :
\* x \in {operand}} : TRUE is e(operand)), which evaluates it once.
\* ------------------------------------------------------------------------
Abs(x) == IF x < 0 THEN -x ELSE x

Min(a, b) == IF a < b THEN a ELSE b

RECURSIVE GCD(_, _)
GCD(a, b) == IF b = 0 THEN a ELSE GCD(b, a % b)

Rat(n, d) ==
    CHOOSE r \in {(CHOOSE q \in {<<x \div g, y \div g>> : g \in {GCD(Abs(x), y)}} : TRUE) :
                     x \in {n}, y \in {d}} : TRUE

RInt(n) == <<n, 1>>

\* sums over the least common denominator, to keep the integers small
RAdd(p, q) ==
    CHOOSE r \in {(LET g == GCD(a[2], b[2])
                   IN  Rat(a[1] * (b[2] \div g) + b[1] * (a[2] \div g), (a[2] \div g) * b[2])) :
                     a \in {p}, b \in {q}} : TRUE

RNeg(p) == <<-p[1], p[2]>>

RSub(p, q) == RAdd(p, RNeg(q))

RDivInt(p, k) == Rat(p[1], p[2] * k)

RAbs(p) == <<Abs(p[1]), p[2]>>

RLess(p, q) == \E a \in {p}, b \in {q} : a[1] * b[2] < b[1] * a[2]

RECURSIVE IntSum(_)
IntSum(s) ==
    IF s = <<>> THEN 0 ELSE CHOOSE r \in {s[1] + IntSum(t) : t \in {Tail(s)}} : TRUE

\* the sum of rationals whose denominators all divide d
RSum(s, d) ==
    CHOOSE r \in {Rat(IntSum([i \in 1..Len(t) |-> t[i][1] * (d \div t[i][2])]), d) : t \in {s}} : TRUE

\* ------------------------------------------------------------------------
\* State
\* ------------------------------------------------------------------------
VARIABLES
    \* performance.now(): the page's clock, in ms
    now,
    \* gesture classifier (module variables of gameUtils.ts:105-108)
    hipYHistory, baselineHipY, lastJumpTime, lastGestureTime,
    \* App state (App.tsx:8-19) and the setGameState updaters not yet rendered
    gameState, poseData, pendingHits,
    \* GameEngine refs (GameEngine.tsx:26-60)
    playerState, obstacles, decorations, scoreRef, speedRef,
    lastTimeRef, lastSpawnTimeRef, lastDecorSpawnTimeRef, lastHitTimeRef,
    isPlayingRef, isPausedRef,
    \* result of the last detectGesture call (const gesture, GameEngine.tsx:375)
    gesture,
    \* an exception escaped a handler (the React tree is torn down)
    crashed,
    \* observation of the run, read by the properties only
    obs

gestureVars == <<hipYHistory, baselineHipY, lastJumpTime, lastGestureTime>>

appVars == <<gameState, poseData, pendingHits>>

engineVars ==
    <<playerState, obstacles, decorations, scoreRef, speedRef, lastTimeRef,
      lastSpawnTimeRef, lastDecorSpawnTimeRef, lastHitTimeRef, isPlayingRef,
      isPausedRef>>

vars == <<now, gestureVars, appVars, engineVars, gesture, crashed, obs>>

\* ------------------------------------------------------------------------
\* Gesture classifier (src/utils/gameUtils.ts:102-172)
\* ------------------------------------------------------------------------
\* results.poseLandmarks: undefined, or an indexed list of landmarks {x, y};
\* an index outside DOMAIN at is a landmark that is missing (undefined).
UndefinedLandmarks == [defined |-> FALSE, at |-> [i \in {} |-> [x |-> 0, y |-> 0]]]

TorsoIndices == {LEFT_HIP, RIGHT_HIP, LEFT_SHOULDER, RIGHT_SHOULDER}

\* a pose with the hips at hipY, the shoulders at shoulderY and the nose at
\* x = noseX, holding only the landmarks in present
Landmarks(hipY, shoulderY, noseX, present) ==
    [defined |-> TRUE,
     at |-> [i \in present |->
               IF i = NOSE THEN [x |-> noseX, y |-> 20]
               ELSE IF i \in {LEFT_HIP, RIGHT_HIP} THEN [x |-> 50, y |-> hipY]
               ELSE [x |-> 50, y |-> shoulderY]]]

\* the poses fed to the classifier in the checks
AllIndices == TorsoIndices \cup {NOSE}

\* <<hipY, shoulderY>>: standing (torso-Y 0.50), slightly risen (0.48),
\* jumping (0.44)
StandTorso == <<60, 40>>

SlightTorso == <<58, 38>>

JumpTorso == <<54, 34>>

Postures(torsos, noses) == {Landmarks(t[1], t[2], x, AllIndices) : t \in torsos, x \in noses}

\* fault: resetGestureState leaves the calibration buffer and the baseline
ResetGestureState_KeepsCalibration ==
    [hipYHistory |-> hipYHistory, baselineHipY |-> baselineHipY, lastJumpTime |-> 0,
     lastGestureTime |-> 0]

\* the classifier state after resetGestureState
ResetGestureState ==
    [hipYHistory |-> <<>>, baselineHipY |-> RInt(0), lastJumpTime |-> 0,
     lastGestureTime |-> 0]

\* the module variables as a record
GestureState ==
    [hipYHistory |-> hipYHistory, baselineHipY |-> baselineHipY,
     lastJumpTime |-> lastJumpTime, lastGestureTime |-> lastGestureTime]

\* const currentY = (leftHip.y + rightHip.y + leftShoulder.y + rightShoulder.y) / 4
CurrentY(lm) ==
    Rat(lm[LEFT_HIP].y + lm[RIGHT_HIP].y + lm[LEFT_SHOULDER].y + lm[RIGHT_SHOULDER].y,
        Cardinality(TorsoIndices))

\* fault: the sum of the buffer is not divided by its length
Mean_Sum(h) == RSum(h, Cardinality(TorsoIndices))

\* baselineHipY = hipYHistory.reduce((a, b) => a + b, 0) / hipYHistory.length
\* (every element is a CurrentY, a multiple of 1/4)
Mean(h) == RDivInt(RSum(h, Cardinality(TorsoIndices)), Len(h))

\* fault: the baseline follows every sample
Drift_Always(base, currentY) == RAdd(base, RDivInt(RSub(currentY, base), DriftDivisor))

\* if (Math.abs(currentY - baselineHipY) < 0.05) baselineHipY += (currentY - baselineHipY) * 0.05
Drift(base, currentY) ==
    CHOOSE r \in {IF RLess(RAbs(diff), RInt(DriftBand))
                  THEN RAdd(base, RDivInt(diff, DriftDivisor))
                  ELSE base : diff \in {RSub(currentY, base)}} : TRUE

\* jumpDiff > JUMP_THRESHOLD_Y, jumpDiff = baselineHipY - currentY
JumpDisplaced(base, currentY) == RLess(RInt(JUMP_THRESHOLD_Y), RSub(base, currentY))

\* fault: the jump cooldown ends at JUMP_COOLDOWN, not after it
JumpAllowed_AtCooldown(st, timestamp) ==
    /\ timestamp - st.lastJumpTime >= JUMP_COOLDOWN
    /\ timestamp - st.lastGestureTime > LANE_CHANGE_COOLDOWN

\* fault: a jump does not wait for the lean cooldown
JumpAllowed_IgnoresLean(st, timestamp) == timestamp - st.lastJumpTime > JUMP_COOLDOWN

\* timestamp - lastJumpTime > JUMP_COOLDOWN && timeSinceLastGesture > LANE_CHANGE_COOLDOWN
JumpAllowed(st, timestamp) ==
    /\ timestamp - st.lastJumpTime > JUMP_COOLDOWN
    /\ timestamp - st.lastGestureTime > LANE_CHANGE_COOLDOWN

\* fault: the lean cooldown is one ms short
LeanSuppressed_Short(st, timestamp) == timestamp - st.lastGestureTime < LANE_CHANGE_COOLDOWN - 1

\* fault: a jump suppresses the leans of the next LANE_CHANGE_COOLDOWN too
LeanSuppressed_AfterJump(st, timestamp) ==
    \/ timestamp - st.lastGestureTime < LANE_CHANGE_COOLDOWN
    \/ timestamp - st.lastJumpTime < LANE_CHANGE_COOLDOWN

\* if (timeSinceLastGesture < LANE_CHANGE_COOLDOWN) return 'NONE'
LeanSuppressed(st, timestamp) == timestamp - st.lastGestureTime < LANE_CHANGE_COOLDOWN

\* fault: a nose on a threshold counts as a lean
Lean_Inclusive(noseX) ==
    IF noseX >= LEAN_THRESHOLD_LEFT THEN "LEFT"
    ELSE IF noseX <= LEAN_THRESHOLD_RIGHT THEN "RIGHT"
    ELSE "NONE"

\* nose.x > LEAN_THRESHOLD_LEFT -> LEFT, nose.x < LEAN_THRESHOLD_RIGHT -> RIGHT
Lean(noseX) ==
    IF noseX > LEAN_THRESHOLD_LEFT THEN "LEFT"
    ELSE IF noseX < LEAN_THRESHOLD_RIGHT THEN "RIGHT"
    ELSE "NONE"

\* detectGesture(landmarks, timestamp) called in classifier state st: the value
\* returned (ret), whether a TypeError was thrown instead (threw), and the
\* classifier state it leaves (st)
DetectGesture(st, landmarks, timestamp) ==
    IF ~landmarks.defined
    THEN [threw |-> FALSE, ret |-> "NONE", st |-> st]
    ELSE IF ~(TorsoIndices \subseteq DOMAIN landmarks.at)
    THEN \* leftHip.y etc. of undefined, before any assignment
         [threw |-> TRUE, ret |-> "NONE", st |-> st]
    ELSE
      CHOOSE r \in {
      LET lm == landmarks.at
      IN  IF Len(st.hipYHistory) < CalibrationSamples
          THEN CHOOSE q \in {[threw |-> FALSE, ret |-> "NONE",
                               st |-> [st EXCEPT !.hipYHistory = h, !.baselineHipY = Mean(h)]] :
                                  h \in {Append(st.hipYHistory, currentY)}} : TRUE
          ELSE
            CHOOSE q \in {
            LET st1 == [st EXCEPT !.baselineHipY = base]
            IN  IF JumpDisplaced(base, currentY) /\ JumpAllowed(st1, timestamp)
                THEN [threw |-> FALSE, ret |-> "JUMP",
                      st |-> [st1 EXCEPT !.lastJumpTime = timestamp]]
                ELSE IF LeanSuppressed(st1, timestamp)
                THEN [threw |-> FALSE, ret |-> "NONE", st |-> st1]
                ELSE IF NOSE \notin DOMAIN lm
                THEN \* nose.x of undefined, after the baseline update
                     [threw |-> TRUE, ret |-> "NONE", st |-> st1]
                ELSE IF Lean(lm[NOSE].x) # "NONE"
                THEN [threw |-> FALSE, ret |-> Lean(lm[NOSE].x),
                      st |-> [st1 EXCEPT !.lastGestureTime = timestamp]]
                ELSE [threw |-> FALSE, ret |-> "NONE", st |-> st1]
            : base \in {Drift(st.baselineHipY, currentY)}} : TRUE
      : currentY \in {CurrentY(landmarks.at)}} : TRUE

\* ------------------------------------------------------------------------
\* Bounds of the model
\* ------------------------------------------------------------------------
\* the clock advances in steps of ClockStep ms, MaxSteps times at most
MaxSteps == 60
\* the same for a session whose player moves
MaxPlaySteps == 38
\* steps the page may idle before the session is started
MaxIdleSteps == 1
\* frames of a session whose timestamp lies behind the clock
MaxLaggingFrames == 1
\* pauses of a session, and the clock steps a pause may last
MaxPauses == 1
MaxPauseSteps == 4
\* clock steps of a session that is paused and resumed
MaxPauseSessionSteps == 35
\* clock steps of a session whose obstacle ids are any value of ObstacleIds
MaxIdSessionSteps == 28
\* classifier harness: detectGesture calls with a malformed sample
MaxMalformedCalls == 2
\* classifier harness: detectGesture calls after calibration
MaxCalibratedCalls == 3
\* the scores 0, 10, ..., 10 * MaxScoreSteps the speed formula is evaluated at
MaxScoreSteps == 150

\* ------------------------------------------------------------------------
\* Observation of the classifier (history variables, not program state)
\* ------------------------------------------------------------------------
\* calls: detectGesture calls since the last reset that did not throw
\* jumpLog: timestamps of the JUMP results since the last reset
\* gestureLog: timestamps of the LEFT/RIGHT results since the last reset
\* first: landmarks of the first call since the last reset
\* identical: every call since the last reset had the landmarks of the first
\* allNone: every call since the last reset returned NONE
\* dispStart: timestamp of the first sample of the current run of consecutive
\*   samples displaced beyond the jump threshold (-1: no run in progress)
\* dispJumps: JUMP results within the current run
\* dispFirstJump: the first sample of the current run returned JUMP (it was
\*   outside both cooldown windows)
\* hits: collisions accepted (setGameState called) since the session started
\* poseAt: performance.now() of the last pose sample (-1: none yet)
\* poseUses: detectGesture calls made with the current poseData
\* frameAt: performance.now() of the last frame callback (-1: none yet)
\* lagged: frames of the session whose timestamp lay behind performance.now()
\* pausedMs: time the session has spent paused, in ms
\* jumpPausedMs: pausedMs when the last jump was started
\* pauses: pauses of the session
\* pauseSteps: clock steps the current pause has lasted
\* sessions: sessions started so far
\* malformedCalls: detectGesture calls made with a malformed sample
\* sample: landmarks of the last direct call of detectGesture (classifier
\*   harness), UndefinedLandmarks before it
\* resumed: "no" before the first resume, "yes" from a resume to the next
\*   tick, "ticked" once a tick has run after the resume
ObsInit ==
    [calls |-> 0, jumpLog |-> <<>>, gestureLog |-> <<>>,
     first |-> UndefinedLandmarks, identical |-> TRUE, allNone |-> TRUE,
     dispStart |-> -1, dispJumps |-> 0, dispFirstJump |-> FALSE,
     hits |-> 0, poseAt |-> -1, poseUses |-> 0, frameAt |-> -1, lagged |-> 0,
     pausedMs |-> 0, jumpPausedMs |-> 0,
     pauses |-> 0, pauseSteps |-> 0, resumed |-> "no", sessions |-> 0,
     malformedCalls |-> 0, sample |-> UndefinedLandmarks]

\* the observation after resetGestureState: the classifier's part starts afresh
ObsResetGesture(o) ==
    [ObsInit EXCEPT !.hits = o.hits, !.poseAt = o.poseAt, !.poseUses = o.poseUses,
                    !.frameAt = o.frameAt, !.lagged = o.lagged,
                    !.pausedMs = o.pausedMs,
                    !.jumpPausedMs = o.jumpPausedMs, !.pauses = o.pauses,
                    !.pauseSteps = o.pauseSteps, !.resumed = o.resumed, !.sessions = o.sessions,
                    !.malformedCalls = o.malformedCalls]

\* whether a well-formed sample is displaced beyond the jump threshold,
\* measured against the baseline detectGesture uses for it
Displaced(st, landmarks) ==
    /\ landmarks.defined
    /\ TorsoIndices \subseteq DOMAIN landmarks.at
    /\ Len(st.hipYHistory) >= CalibrationSamples
    /\ JumpDisplaced(Drift(st.baselineHipY, CurrentY(landmarks.at)), CurrentY(landmarks.at))

ObsCall(o, st, landmarks, timestamp, res) ==
    CHOOSE r \in {
    LET jumped == ~res.threw /\ res.ret = "JUMP"
        leaned == ~res.threw /\ res.ret \in {"LEFT", "RIGHT"}
    IN  [o EXCEPT
           !.calls = IF res.threw THEN @ ELSE @ + 1,
           !.jumpLog = IF jumped THEN Append(@, timestamp) ELSE @,
           !.gestureLog = IF leaned THEN Append(@, timestamp) ELSE @,
           !.first = IF o.calls = 0 THEN landmarks ELSE @,
           !.identical = @ /\ (o.calls = 0 \/ landmarks = o.first),
           !.allNone = @ /\ ~res.threw /\ res.ret = "NONE",
           !.dispStart = IF ~disp THEN -1 ELSE IF @ = -1 THEN timestamp ELSE @,
           !.dispJumps = IF ~disp THEN 0
                         ELSE (IF o.dispStart = -1 THEN 0 ELSE @) + (IF jumped THEN 1 ELSE 0),
           !.dispFirstJump = IF ~disp THEN FALSE ELSE IF o.dispStart = -1 THEN jumped ELSE @]
    : disp \in {Displaced(st, landmarks)}} : TRUE

\* ------------------------------------------------------------------------
\* Initial state: the App mounted, nothing started (App.tsx:8-19,
\* GameEngine.tsx:26-60 and the first run of the init effect, 262-275)
\* ------------------------------------------------------------------------
InitialGameState ==
    [isPlaying |-> FALSE, isPaused |-> FALSE, score |-> 0, gameOver |-> FALSE,
     speed |-> 0, cameraReady |-> FALSE, lastLaneChange |-> 0, lives |-> InitialLives]

\* poseData: null, or the results object of the pose pipeline
NullPose == [isNull |-> TRUE, poseLandmarks |-> UndefinedLandmarks]

InitialPlayer == [lane |-> 1, isJumping |-> FALSE, jumpStartTime |-> 0, yPosition |-> 0]

Init ==
    /\ now = 0
    /\ hipYHistory = <<>>
    /\ baselineHipY = RInt(0)
    /\ lastJumpTime = 0
    /\ lastGestureTime = 0
    /\ gameState = InitialGameState
    /\ poseData = NullPose
    /\ pendingHits = <<>>
    /\ playerState = InitialPlayer
    /\ obstacles = <<>>
    /\ decorations = <<>>
    /\ scoreRef = 0
    /\ speedRef = START_SPEED * SpeedScale
    /\ lastTimeRef = 0
    /\ lastSpawnTimeRef = 0
    /\ lastDecorSpawnTimeRef = 0
    /\ lastHitTimeRef = 0
    /\ isPlayingRef = FALSE
    /\ isPausedRef = FALSE
    /\ gesture = "NONE"
    /\ crashed = FALSE
    /\ obs = ObsInit

\* ------------------------------------------------------------------------
\* updateGameLogic (src/components/GameEngine.tsx:729-898)
\* ------------------------------------------------------------------------
\* fault: the score is subtracted from the start speed
Speed_Subtracting(score) ==
    Min(MAX_SPEED * SpeedScale,
        START_SPEED * SpeedScale - (score * SpeedScale) \div ScorePerSpeedUnit)

\* fault: the speed is not capped
Speed_Uncapped(score) ==
    START_SPEED * SpeedScale + (score * SpeedScale) \div ScorePerSpeedUnit

\* speedRef.current = Math.min(MAX_SPEED, START_SPEED + scoreRef.current / 50)
Speed(score) ==
    Min(MAX_SPEED * SpeedScale,
        START_SPEED * SpeedScale + (score * SpeedScale) \div ScorePerSpeedUnit)

\* fault: the arc lacks the factor 4 and peaks at a quarter of JUMP_HEIGHT
JumpArc_NoFactor(jumpProgress) == JUMP_HEIGHT * jumpProgress * (JUMP_DURATION - jumpProgress)

\* JUMP_HEIGHT * 4 * t * (1 - t) with t = jumpProgress / JUMP_DURATION
JumpArc(jumpProgress) == JUMP_HEIGHT * 4 * jumpProgress * (JUMP_DURATION - jumpProgress)

\* fault: a jump whose duration has run out is not ended
JumpPhysics_NeverLands(player, time) ==
    IF player.isJumping
    THEN LET jumpProgress == time - player.jumpStartTime
         IN  IF jumpProgress < JUMP_DURATION
             THEN [player EXCEPT !.yPosition = JumpArc(jumpProgress)]
             ELSE [player EXCEPT !.yPosition = 0]
    ELSE player

\* Jump Physics, GameEngine.tsx:764-773
JumpPhysics(player, time) ==
    IF player.isJumping
    THEN LET jumpProgress == time - player.jumpStartTime
         IN  IF jumpProgress < JUMP_DURATION
             THEN [player EXCEPT !.yPosition = JumpArc(jumpProgress)]
             ELSE [player EXCEPT !.isJumping = FALSE, !.yPosition = 0]
    ELSE player

\* fault: the obstacle interval does not follow the speed
ObstacleSpawnDue_FixedInterval(time, last, speed) == time - last > SPAWN_INTERVAL_BASE

\* time - lastSpawnTimeRef.current > (SPAWN_INTERVAL_BASE * 1000) / (speedRef.current / 15)
ObstacleSpawnDue(time, last, speed) ==
    (time - last) * speed > SPAWN_INTERVAL_BASE * SpawnSpeedBase * SpeedScale

\* fault: the decoration interval does not follow the speed
DecorSpawnDue_FixedInterval(time, last, speed) ==
    (time - last) * DecorIntervalDivisor > SPAWN_INTERVAL_BASE

\* time - lastDecorSpawnTimeRef.current > (SPAWN_INTERVAL_BASE * 1000) / (speedRef.current / 15) / 8
DecorSpawnDue(time, last, speed) ==
    (time - last) * speed * DecorIntervalDivisor > SPAWN_INTERVAL_BASE * SpawnSpeedBase * SpeedScale

\* spawnDecoration(SPAWN_DISTANCE - Math.random() * 20): the id and the jitter
\* are the values Math.random() returned (x, type and rotation are cosmetic)
SpawnDecoration(decs, id, jitter) ==
    Append(decs, [id |-> id, z |-> (SPAWN_DISTANCE - jitter) * ZScale])

\* spawnObstacle(SPAWN_DISTANCE): lane and id are the values Math.random() gave
SpawnObstacle(obsts, id, lane) ==
    Append(obsts, [id |-> id, lane |-> lane, z |-> SPAWN_DISTANCE * ZScale,
                   type |-> "lava_block", passed |-> FALSE])

\* decorationsRef.current.forEach(...) and the filter by id, GameEngine.tsx:817-836
MoveDecorations(decs, speed, dt) ==
    CHOOSE r \in
        {CHOOSE q \in
            {SelectSeq(moved, LAMBDA d : d.id \notin decorsToRemove) :
                decorsToRemove \in {{moved[i].id : i \in {k \in 1..Len(moved) :
                                                    moved[k].z > DecorCullZ * ZScale}}}} : TRUE :
         moved \in {CHOOSE m \in {[i \in 1..Len(d0) |-> [d0[i] EXCEPT !.z = @ + v]] :
                                     d0 \in {decs}, v \in {speed * dt}} : TRUE}} : TRUE

\* obs.z > -1 && obs.z < 1
InHitWindow(z) == z > -HitWindow * ZScale /\ z < HitWindow * ZScale

\* fault: no height clears an obstacle
BelowClearance_Always(yPosition) == TRUE

\* player.yPosition < 1.1
BelowClearance(yPosition) == yPosition * 10 < JumpClearance * HeightScale

\* fault: an obstacle counts as passed once it is behind the player
Passed_BehindPlayer(z) == z > 0

\* obs.z > 5
Passed(z) == z > PassedZ * ZScale

\* fault: invincibility ends with the tick of the hit
Vulnerable_NextTick(clock, lastHit) == clock - lastHit > 0

\* now - lastHitTimeRef.current > INVINCIBILITY_DURATION
Vulnerable(clock, lastHit) == clock - lastHit > INVINCIBILITY_DURATION

\* fault: a hit costs the points of one obstacle
ObstacleStep_HitCostsScore(acc, o, ctx) ==
    LET z1 == o.z + ctx.speed * ctx.dt
        collision ==
            /\ InHitWindow(z1)
            /\ o.lane = ctx.player.lane
            /\ BelowClearance(ctx.player.yPosition)
        hit == collision /\ Vulnerable(ctx.clock, acc.lastHitTimeRef)
        over == Passed(z1)
    IN  [obstacles |-> Append(acc.obstacles, [o EXCEPT !.z = z1, !.passed = @ \/ over]),
         lastHitTimeRef |-> IF hit THEN ctx.clock ELSE acc.lastHitTimeRef,
         queued |-> IF hit THEN Append(acc.queued, acc.scoreRef) ELSE acc.queued,
         scoreRef |-> IF over /\ ~o.passed THEN acc.scoreRef + ScorePerObstacle
                      ELSE IF hit THEN acc.scoreRef - ScorePerObstacle
                      ELSE acc.scoreRef,
         toRemove |-> IF over THEN acc.toRemove \cup {o.id} ELSE acc.toRemove]

\* fault: an obstacle that hits the player is removed
ObstacleStep_RemovesOnHit(acc, o, ctx) ==
    LET z1 == o.z + ctx.speed * ctx.dt
        collision ==
            /\ InHitWindow(z1)
            /\ o.lane = ctx.player.lane
            /\ BelowClearance(ctx.player.yPosition)
        hit == collision /\ Vulnerable(ctx.clock, acc.lastHitTimeRef)
        over == Passed(z1)
    IN  [obstacles |-> Append(acc.obstacles, [o EXCEPT !.z = z1, !.passed = @ \/ over]),
         lastHitTimeRef |-> IF hit THEN ctx.clock ELSE acc.lastHitTimeRef,
         queued |-> IF hit THEN Append(acc.queued, acc.scoreRef) ELSE acc.queued,
         scoreRef |-> IF over /\ ~o.passed THEN acc.scoreRef + ScorePerObstacle
                      ELSE acc.scoreRef,
         toRemove |-> IF over \/ hit THEN acc.toRemove \cup {o.id} ELSE acc.toRemove]

\* fault: the collision is tested on the position before the obstacle is
\* advanced
ObstacleStep_CollidesBeforeAdvance(acc, o, ctx) ==
    LET z1 == o.z + ctx.speed * ctx.dt
        collision ==
            /\ InHitWindow(o.z)
            /\ o.lane = ctx.player.lane
            /\ BelowClearance(ctx.player.yPosition)
        hit == collision /\ Vulnerable(ctx.clock, acc.lastHitTimeRef)
        over == Passed(z1)
    IN  [obstacles |-> Append(acc.obstacles, [o EXCEPT !.z = z1, !.passed = @ \/ over]),
         lastHitTimeRef |-> IF hit THEN ctx.clock ELSE acc.lastHitTimeRef,
         queued |-> IF hit THEN Append(acc.queued, acc.scoreRef) ELSE acc.queued,
         scoreRef |-> IF over /\ ~o.passed THEN acc.scoreRef + ScorePerObstacle
                      ELSE acc.scoreRef,
         toRemove |-> IF over THEN acc.toRemove \cup {o.id} ELSE acc.toRemove]

\* one iteration of obstaclesRef.current.forEach, GameEngine.tsx:847-886.
\* acc: the obstacles already visited, lastHitTimeRef, scoreRef, the updaters
\* passed to setGameState (each with the scoreRef read at the call) and
\* obstaclesToRemove; ctx: the player, the speed, dt and performance.now()
ObstacleStep(acc, o, ctx) ==
    LET z1 == o.z + ctx.speed * ctx.dt
        collision ==
            /\ InHitWindow(z1)
            /\ o.lane = ctx.player.lane
            /\ BelowClearance(ctx.player.yPosition)
        hit == collision /\ Vulnerable(ctx.clock, acc.lastHitTimeRef)
        over == Passed(z1)
    IN  [obstacles |-> Append(acc.obstacles, [o EXCEPT !.z = z1, !.passed = @ \/ over]),
         lastHitTimeRef |-> IF hit THEN ctx.clock ELSE acc.lastHitTimeRef,
         queued |-> IF hit THEN Append(acc.queued, acc.scoreRef) ELSE acc.queued,
         scoreRef |-> IF over /\ ~o.passed THEN acc.scoreRef + ScorePerObstacle
                      ELSE acc.scoreRef,
         toRemove |-> IF over THEN acc.toRemove \cup {o.id} ELSE acc.toRemove]

RECURSIVE ObstacleLoop(_, _, _)
ObstacleLoop(acc, rest, ctx) ==
    IF rest = <<>> THEN acc
    ELSE CHOOSE r \in {ObstacleLoop(a, t, ctx) :
                         a \in {ObstacleStep(acc, Head(rest), ctx)}, t \in {Tail(rest)}} : TRUE

\* updateGameLogic(dt, time), with performance.now() = clock and the values
\* drawn from Math.random() in rnd (lane, obstacleId, decorIds, jitter)
UpdateGameLogic(dt, time, clock, rnd) ==
    LET speed == Speed(scoreRef)
        player == JumpPhysics(playerState, time)
        decorDue == DecorSpawnDue(time, lastDecorSpawnTimeRef, speed)
        decs0 == IF decorDue
                 THEN SpawnDecoration(
                          SpawnDecoration(decorations, rnd.decorIds[1], rnd.jitter[1]),
                          rnd.decorIds[2], rnd.jitter[2])
                 ELSE decorations
        spawnDue == ObstacleSpawnDue(time, lastSpawnTimeRef, speed)
        obsts0 == IF spawnDue THEN SpawnObstacle(obstacles, rnd.obstacleId, rnd.lane)
                  ELSE obstacles
    IN  CHOOSE r \in {
        [speedRef |-> speed,
         playerState |-> player,
         decorations |-> MoveDecorations(decs0, speed, dt),
         lastDecorSpawnTimeRef |-> IF decorDue THEN time ELSE lastDecorSpawnTimeRef,
         lastSpawnTimeRef |-> IF spawnDue THEN time ELSE lastSpawnTimeRef,
         obstacles |-> SelectSeq(loop.obstacles, LAMBDA o : o.id \notin loop.toRemove),
         lastHitTimeRef |-> loop.lastHitTimeRef,
         scoreRef |-> loop.scoreRef,
         queued |-> loop.queued]
        : loop \in {ObstacleLoop(
                    [obstacles |-> <<>>, lastHitTimeRef |-> lastHitTimeRef,
                     queued |-> <<>>, scoreRef |-> scoreRef, toRemove |-> {}],
                    obsts0,
                    [player |-> player, speed |-> speed, dt |-> dt, clock |-> clock])}} : TRUE

\* ------------------------------------------------------------------------
\* React: state updates, render and effects (App.tsx, GameEngine.tsx:262-388)
\* ------------------------------------------------------------------------
\* fault: the fatal hit does not store the score
HitUpdater_DropsScore(prev, score) ==
    LET newLives == prev.lives - 1
    IN  IF newLives <= 0
        THEN [prev EXCEPT !.lives = 0, !.gameOver = TRUE]
        ELSE [prev EXCEPT !.lives = newLives]

\* fault: the game ends one hit late
HitUpdater_LateGameOver(prev, score) ==
    LET newLives == prev.lives - 1
    IN  IF newLives < 0
        THEN [prev EXCEPT !.lives = 0, !.gameOver = TRUE, !.score = score]
        ELSE [prev EXCEPT !.lives = newLives]

\* the updater passed to setGameState on a hit, GameEngine.tsx:867-873;
\* score is the scoreRef.current it reads
HitUpdater(prev, score) ==
    LET newLives == prev.lives - 1
    IN  IF newLives <= 0
        THEN [prev EXCEPT !.lives = 0, !.gameOver = TRUE, !.score = score]
        ELSE [prev EXCEPT !.lives = newLives]

RECURSIVE ApplyUpdaters(_, _)
ApplyUpdaters(gs, scores) ==
    IF scores = <<>> THEN gs
    ELSE ApplyUpdaters(HitUpdater(gs, Head(scores)), Tail(scores))

\* the game states a render can compute from the queued updaters: React runs
\* an updater when it renders (it then reads the scoreRef of that moment), but
\* may run the first updater of an empty queue eagerly, inside setGameState
\* (it then read the scoreRef of the call)
Flushed ==
    IF pendingHits = <<>> THEN {gameState}
    ELSE {ApplyUpdaters(gameState, [i \in 1..Len(pendingHits) |->
              IF i = 1 THEN first ELSE scoreRef]) : first \in {pendingHits[1], scoreRef}}

\* handleStart and handleRestart, App.tsx:21-41
StartUpdater(prev) ==
    [prev EXCEPT !.isPlaying = TRUE, !.isPaused = FALSE, !.gameOver = FALSE,
                 !.score = 0, !.lives = InitialLives]

\* fault: the lane is not tested before it is changed
ApplyGesture_Unclamped(player, g, clock) ==
    IF g = "JUMP" /\ ~player.isJumping
    THEN [player EXCEPT !.isJumping = TRUE, !.jumpStartTime = clock]
    ELSE IF g = "LEFT" THEN [player EXCEPT !.lane = @ - 1]
    ELSE IF g = "RIGHT" THEN [player EXCEPT !.lane = @ + 1]
    ELSE player

\* fault: JUMP restarts a jump that is in progress
ApplyGesture_RestartsJump(player, g, clock) ==
    IF g = "JUMP"
    THEN [player EXCEPT !.isJumping = TRUE, !.jumpStartTime = clock]
    ELSE IF g = "LEFT"
    THEN (IF player.lane > 0 THEN [player EXCEPT !.lane = @ - 1] ELSE player)
    ELSE IF g = "RIGHT"
    THEN (IF player.lane < 2 THEN [player EXCEPT !.lane = @ + 1] ELSE player)
    ELSE player

\* the input effect's use of the gesture, GameEngine.tsx:377-386
ApplyGesture(player, g, clock) ==
    IF g = "JUMP" /\ ~player.isJumping
    THEN [player EXCEPT !.isJumping = TRUE, !.jumpStartTime = clock]
    ELSE IF g = "LEFT"
    THEN (IF player.lane > 0 THEN [player EXCEPT !.lane = @ - 1] ELSE player)
    ELSE IF g = "RIGHT"
    THEN (IF player.lane < 2 THEN [player EXCEPT !.lane = @ + 1] ELSE player)
    ELSE player

\* the dependencies of the init effect changed, GameEngine.tsx:322
InitEffectRuns(old, new) == new.isPlaying # old.isPlaying \/ new.gameOver # old.gameOver

\* the dependency of the pause sync effect changed, GameEngine.tsx:327
PauseEffectRuns(old, new) == new.isPaused # old.isPaused

\* fault: the input effect classifies while the game is paused
InputEffectClassifies_WhilePaused(gs, pose) ==
    gs.isPlaying /\ ~gs.gameOver /\ ~pose.isNull

\* the input effect does not return early, GameEngine.tsx:372
InputEffectClassifies(gs, pose) ==
    gs.isPlaying /\ ~gs.gameOver /\ ~gs.isPaused /\ ~pose.isNull

\* fault: the loop is started whether or not the game is over
LoopStarts_WhilePlaying(gs) == gs.isPlaying

\* the loop is (re)started by the init effect, GameEngine.tsx:281
LoopStarts(gs) == gs.isPlaying /\ ~gs.gameOver

NoCall == [threw |-> FALSE, ret |-> "NONE", st |-> ResetGestureState]

\* One render of App with game state gs and pose data pose, followed by the
\* effects whose dependencies changed, in the order of their definition: the
\* init effect (cleanup of the previous run, then GameEngine.tsx:262-310),
\* the pause sync effect (324-327), the input effect (370-388).
Commit(gs, pose, poseChanged) ==
    LET initRuns == InitEffectRuns(gameState, gs)
        pauseRuns == PauseEffectRuns(gameState, gs)
        classifies == (poseChanged \/ initRuns \/ pauseRuns) /\ InputEffectClassifies(gs, pose)
        st0 == IF initRuns THEN ResetGestureState ELSE GestureState
        player0 == IF initRuns THEN InitialPlayer ELSE playerState
        obs0 == IF initRuns
                THEN IF LoopStarts(gs)
                     THEN [ObsInit EXCEPT !.poseAt = obs.poseAt, !.poseUses = obs.poseUses,
                                          !.frameAt = obs.frameAt,
                                          !.sessions = obs.sessions + 1]
                     ELSE ObsResetGesture(obs)
                ELSE obs
        obs1 == [obs0 EXCEPT !.poseAt = IF poseChanged THEN now ELSE @,
                             !.poseUses = IF poseChanged THEN 0 ELSE @,
                             !.pauses = IF gs.isPaused /\ ~gameState.isPaused THEN @ + 1 ELSE @,
                             !.pauseSteps = IF gs.isPaused /\ ~gameState.isPaused THEN 0 ELSE @,
                             !.resumed = IF ~gs.isPaused /\ gameState.isPaused THEN "yes" ELSE @]
    IN  \E res \in {IF classifies THEN DetectGesture(st0, pose.poseLandmarks, now) ELSE NoCall} :
            /\ gameState' = gs
            /\ poseData' = pose
            /\ pendingHits' = <<>>
            /\ hipYHistory' = IF classifies THEN res.st.hipYHistory ELSE st0.hipYHistory
            /\ baselineHipY' = IF classifies THEN res.st.baselineHipY ELSE st0.baselineHipY
            /\ lastJumpTime' = IF classifies THEN res.st.lastJumpTime ELSE st0.lastJumpTime
            /\ lastGestureTime' = IF classifies THEN res.st.lastGestureTime ELSE st0.lastGestureTime
            /\ gesture' = IF classifies /\ ~res.threw THEN res.ret ELSE gesture
            /\ crashed' = (classifies /\ res.threw)
            /\ playerState' = IF classifies /\ ~res.threw
                              THEN ApplyGesture(player0, res.ret, now)
                              ELSE player0
            /\ obs' = IF classifies
                      THEN LET jumps == ~res.threw /\ res.ret = "JUMP" /\ ~player0.isJumping
                           IN  [ObsCall(obs1, st0, pose.poseLandmarks, now, res)
                                    EXCEPT !.poseUses = @ + 1,
                                           !.jumpPausedMs = IF jumps THEN obs1.pausedMs ELSE @]
                      ELSE obs1
            /\ IF initRuns
               THEN /\ obstacles' = <<>>
                    /\ decorations' = <<>>
                    /\ scoreRef' = 0
                    /\ speedRef' = START_SPEED * SpeedScale
                    /\ lastTimeRef' = now
                    /\ lastSpawnTimeRef' = now
                    /\ lastDecorSpawnTimeRef' = now
                    /\ lastHitTimeRef' = 0
                    /\ isPlayingRef' = LoopStarts(gs)
               ELSE UNCHANGED <<obstacles, decorations, scoreRef, speedRef, lastTimeRef,
                                lastSpawnTimeRef, lastDecorSpawnTimeRef, lastHitTimeRef,
                                isPlayingRef>>
            /\ isPausedRef' = IF pauseRuns THEN gs.isPaused ELSE isPausedRef
            /\ UNCHANGED now

\* WebcamController: camera.start() resolved, onCameraReady
\* (WebcamController.tsx:55-56, App.tsx:51-53)
CameraReady ==
    /\ ~crashed
    /\ ~gameState.cameraReady
    /\ \E gs \in Flushed : Commit([gs EXCEPT !.cameraReady = TRUE], poseData, FALSE)

\* the PLAY button (shown on the start screen once the camera is ready,
\* App.tsx:106-159)
HandleStart ==
    /\ ~crashed
    /\ ~gameState.isPlaying /\ ~gameState.gameOver /\ gameState.cameraReady
    /\ \E gs \in Flushed : Commit(StartUpdater(gs), poseData, FALSE)

\* the Play Again button (shown on the game-over screen, App.tsx:163-193)
HandleRestart ==
    /\ ~crashed
    /\ gameState.gameOver
    /\ \E gs \in Flushed : Commit(StartUpdater(gs), poseData, FALSE)

\* the pause button, App.tsx:43-45 and 79-86
HandlePause ==
    /\ ~crashed
    /\ obs.pauses < MaxPauses
    /\ gameState.isPlaying /\ ~gameState.gameOver /\ ~gameState.isPaused
    /\ \E gs \in Flushed : Commit([gs EXCEPT !.isPaused = TRUE], poseData, FALSE)

\* the Resume button, App.tsx:47-49 and 89-103
HandleResume ==
    /\ ~crashed
    /\ gameState.isPlaying /\ gameState.isPaused /\ ~gameState.gameOver
    /\ \E gs \in Flushed : Commit([gs EXCEPT !.isPaused = FALSE], poseData, FALSE)

\* onResults -> setPoseData(results), WebcamController.tsx:73-74: the camera
\* delivers one sample per clock step once it has started
PoseUpdate(LandmarkSet) ==
    /\ ~crashed
    /\ gameState.cameraReady
    /\ obs.poseAt < now
    /\ \E landmarks \in LandmarkSet :
           /\ Len(hipYHistory) < CalibrationSamples => landmarks = Landmarks(StandTorso[1], StandTorso[2], 50, AllIndices)
           /\ \E gs \in Flushed :
                  Commit(gs, [isNull |-> FALSE, poseLandmarks |-> landmarks], TRUE)

\* the render React scheduled for the updaters queued by a tick
Render ==
    /\ ~crashed
    /\ pendingHits # <<>>
    /\ \E gs \in Flushed : Commit(gs, poseData, FALSE)

\* ------------------------------------------------------------------------
\* The animation loop (GameEngine.tsx:285-307)
\* ------------------------------------------------------------------------
\* an id Math.random().toString() returns that no live entity carries
FreshId(used) ==
    CHOOSE r \in {CHOOSE i \in 1..(Cardinality(u) + 1) : i \notin u : u \in {used}} : TRUE

IdsOf(entities) == {entities[i].id : i \in 1..Len(entities)}

\* fault: a paused frame does not record its timestamp
PausedFrameTime_Kept(time, last) == last

\* lastTimeRef.current = time in the paused branch of animate
PausedFrameTime(time, last) == time

\* animate(time): the frame callback runs at clock now with the frame's
\* timestamp time = now - lag; timestamps of successive frames increase
Animate(lag, rnd) ==
    LET time == now - lag
    IN  /\ ~crashed
        /\ isPlayingRef
        /\ time > lastTimeRef
        /\ lag > 0 => obs.lagged < MaxLaggingFrames
        /\ lastTimeRef' = IF isPausedRef THEN PausedFrameTime(time, lastTimeRef) ELSE time
        /\ IF isPausedRef
           THEN /\ obs' = [obs EXCEPT !.frameAt = now, !.lagged = IF lag > 0 THEN @ + 1 ELSE @]
                /\ UNCHANGED <<playerState, obstacles, decorations, scoreRef, speedRef,
                               lastSpawnTimeRef, lastDecorSpawnTimeRef, lastHitTimeRef,
                               pendingHits>>
           ELSE \E u \in {UpdateGameLogic(time - lastTimeRef, time, now, rnd)} :
                    /\ speedRef' = u.speedRef
                    /\ playerState' = u.playerState
                    /\ decorations' = u.decorations
                    /\ lastDecorSpawnTimeRef' = u.lastDecorSpawnTimeRef
                    /\ lastSpawnTimeRef' = u.lastSpawnTimeRef
                    /\ obstacles' = u.obstacles
                    /\ lastHitTimeRef' = u.lastHitTimeRef
                    /\ scoreRef' = u.scoreRef
                    /\ pendingHits' = pendingHits \o u.queued
                    /\ obs' = [obs EXCEPT !.hits = @ + Len(u.queued), !.frameAt = now,
                                           !.lagged = IF lag > 0 THEN @ + 1 ELSE @,
                                           !.resumed = IF @ = "yes" THEN "ticked" ELSE @]
        /\ UNCHANGED <<now, gestureVars, gameState, poseData, isPlayingRef, isPausedRef,
                       gesture, crashed>>

\* ------------------------------------------------------------------------
\* The session: clock, camera, buttons, frames
\* ------------------------------------------------------------------------
\* one clock step, in ms
ClockStep == 1000 \div 4

\* how far, in ms, a frame's timestamp may lie behind performance.now() when
\* its callback runs (the timestamp is taken when the frame begins; tasks
\* queued before the callback run in between)
FrameLag == 10

FrameLags == {0, FrameLag}

Lanes == 0..(LaneCount - 1)

\* the poses of a session: standing, jumping, leaning either way
SessionLandmarks ==
    Postures({StandTorso, JumpTorso}, {50}) \cup Postures({StandTorso}, {61, 39})

\* the loop runs and has had no frame in the current clock step
FrameDue == isPlayingRef /\ lastTimeRef < now /\ obs.frameAt # now

\* time passes by one clock step. A queued render does not wait a step, a
\* started camera delivers its sample every step and a running loop gets its
\* frame every step
Elapse(limit) ==
    /\ ~crashed
    /\ pendingHits = <<>>
    /\ now + ClockStep <= limit * ClockStep
    /\ gameState.isPlaying \/ now + ClockStep <= MaxIdleSteps * ClockStep
    /\ gameState.cameraReady => obs.poseAt = now
    /\ ~FrameDue
    /\ gameState.isPaused => obs.pauseSteps < MaxPauseSteps
    /\ now' = now + ClockStep
    /\ obs' = IF gameState.isPaused
              THEN [obs EXCEPT !.pausedMs = @ + ClockStep, !.pauseSteps = @ + 1]
              ELSE obs
    /\ UNCHANGED <<gestureVars, appVars, engineVars, gesture, crashed>>

\* a frame whose timestamp lags by one of LagSet and whose obstacle, if one is
\* spawned, takes a lane of LaneSet; ids are unique among the live entities,
\* decorations are not jittered
Frame(LaneSet, LagSet) ==
    \E lag \in LagSet, lane \in LaneSet :
        \E id1 \in {FreshId(IdsOf(decorations))} :
            \E id2 \in {FreshId(IdsOf(decorations) \cup {id1})}, id \in {FreshId(IdsOf(obstacles))} :
                Animate(lag, [lane |-> lane, obstacleId |-> id,
                              decorIds |-> <<id1, id2>>, jitter |-> <<0, 0>>])

\* a session whose player stands still: the camera, the start button, the
\* frames with obstacles in every lane, game over and restart
StandingLandmarks == Postures({StandTorso}, {50})

Next ==
    \/ Elapse(MaxSteps)
    \/ CameraReady
    \/ HandleStart
    \/ HandleRestart
    \/ PoseUpdate(StandingLandmarks)
    \/ Render
    \/ Frame(Lanes, {0})

Spec == Init /\ [][Next]_vars

\* a session whose player jumps and leans once the classifier is calibrated;
\* the obstacles come down the middle lane
NextPlay ==
    \/ Elapse(MaxPlaySteps)
    \/ CameraReady
    \/ HandleStart
    \/ PoseUpdate(SessionLandmarks)
    \/ Render
    \/ Frame({1}, {0})

SpecPlay == Init /\ [][NextPlay]_vars

\* a session whose player jumps once the classifier is calibrated, and in
\* which MaxLaggingFrames frames carry a timestamp behind the clock
JumpingLandmarks == Postures({StandTorso, JumpTorso}, {50})

NextLag ==
    \/ Elapse(MaxPlaySteps)
    \/ CameraReady
    \/ HandleStart
    \/ PoseUpdate(JumpingLandmarks)
    \/ Render
    \/ Frame({1}, FrameLags)

SpecLag == Init /\ [][NextLag]_vars

\* the same session with the scheduling the browser provides: the clock
\* advances, the camera delivers its sample, React renders a pending update
\* and requestAnimationFrame delivers the frame that is due
SpecLagFair ==
    /\ SpecLag
    /\ WF_vars(Elapse(MaxPlaySteps))
    /\ WF_vars(PoseUpdate(JumpingLandmarks))
    /\ WF_vars(Render)
    /\ WF_vars(Frame({1}, FrameLags))

\* a frame lag that puts a frame's timestamp between the decoration interval
\* at the start speed (187.5 ms) and the one at the next speed (185 ms) after
\* the frame before
DecorLag == 64

\* a session whose player stands and in which MaxLaggingFrames frames carry a
\* timestamp DecorLag behind the clock
NextDecor ==
    \/ Elapse(MaxPlaySteps)
    \/ CameraReady
    \/ HandleStart
    \/ PoseUpdate(StandingLandmarks)
    \/ Render
    \/ Frame({1}, {0, DecorLag})

SpecDecor == Init /\ [][NextDecor]_vars

\* the values Math.random().toString() takes for the id of an obstacle
ObstacleIds == 1..2

\* a frame whose obstacle, if one is spawned, takes whichever id of IdSet
\* Math.random() returns, carried by a live obstacle or not
FrameAnyId(LaneSet, IdSet) ==
    \E lane \in LaneSet, id \in IdSet :
        \E id1 \in {FreshId(IdsOf(decorations))} :
            \E id2 \in {FreshId(IdsOf(decorations) \cup {id1})} :
                Animate(0, [lane |-> lane, obstacleId |-> id,
                            decorIds |-> <<id1, id2>>, jitter |-> <<0, 0>>])

\* a session of a standing player in which nothing keeps the id of a new
\* obstacle apart from the ids of the live ones
NextIds ==
    \/ Elapse(MaxIdSessionSteps)
    \/ CameraReady
    \/ HandleStart
    \/ PoseUpdate(StandingLandmarks)
    \/ Render
    \/ FrameAnyId(Lanes, ObstacleIds)

SpecIds == Init /\ [][NextIds]_vars

\* a session whose player jumps once the classifier is calibrated and which
\* is paused and resumed, MaxPauses times for MaxPauseSteps clock steps at most
NextPause ==
    \/ Elapse(MaxPauseSessionSteps)
    \/ CameraReady
    \/ HandleStart
    \/ HandlePause
    \/ HandleResume
    \/ PoseUpdate(JumpingLandmarks)
    \/ Render
    \/ Frame({1}, {0})

SpecPause == Init /\ [][NextPause]_vars

\* ------------------------------------------------------------------------
\* Classifier harness: detectGesture called directly, as its unit test would,
\* with the timestamps of a monotonic clock
\* ------------------------------------------------------------------------
\* calibration: the player holds one posture (nose centred, or standing
\* off-centre beyond the lean threshold)
CalibrationLandmarks ==
    Postures({StandTorso, SlightTorso}, {50}) \cup Postures({StandTorso}, {61})

\* one camera frame
CalibrationPeriod == {33}

\* after calibration: the next camera frame, or a sample just inside, on, or
\* just outside JUMP_COOLDOWN
JumpLandmarks ==
    Postures({StandTorso, SlightTorso, JumpTorso}, {50}) \cup Postures({StandTorso}, {61})

JumpPeriods == {33, JUMP_COOLDOWN - 1, JUMP_COOLDOWN, JUMP_COOLDOWN + 1}

HarnessCall(landmarks, dt) ==
    \E res \in {DetectGesture(GestureState, landmarks, now + dt)} :
        /\ ~crashed
        /\ now' = now + dt
        /\ hipYHistory' = res.st.hipYHistory
        /\ baselineHipY' = res.st.baselineHipY
        /\ lastJumpTime' = res.st.lastJumpTime
        /\ lastGestureTime' = res.st.lastGestureTime
        /\ gesture' = IF res.threw THEN gesture ELSE res.ret
        /\ crashed' = res.threw
        /\ obs' = [ObsCall(obs, GestureState, landmarks, now + dt, res)
                      EXCEPT !.sample = landmarks]
        /\ UNCHANGED <<appVars, engineVars>>

HarnessCalibrate ==
    \E landmarks \in CalibrationLandmarks, dt \in CalibrationPeriod :
        /\ Len(hipYHistory) < CalibrationSamples
        /\ obs.calls = 0 \/ landmarks = obs.first
        /\ HarnessCall(landmarks, dt)

HarnessSample(LandmarkSet, Periods) ==
    \E landmarks \in LandmarkSet, dt \in Periods :
        /\ Len(hipYHistory) >= CalibrationSamples
        /\ obs.calls < CalibrationSamples + MaxCalibratedCalls
        /\ HarnessCall(landmarks, dt)

\* malformed samples: poseLandmarks undefined, or a standing pose with one of
\* the five landmarks detectGesture reads missing
MalformedLandmarks ==
    {UndefinedLandmarks} \cup
    {Landmarks(StandTorso[1], StandTorso[2], 50, AllIndices \ {i}) : i \in AllIndices}

\* detectGesture called with a malformed sample
HarnessMalformed ==
    \E landmarks \in MalformedLandmarks, dt \in CalibrationPeriod :
        \E res \in {DetectGesture(GestureState, landmarks, now + dt)} :
            /\ ~crashed
            /\ obs.malformedCalls < MaxMalformedCalls
            /\ obs.calls < CalibrationSamples + MaxCalibratedCalls
            /\ now' = now + dt
            /\ hipYHistory' = res.st.hipYHistory
            /\ baselineHipY' = res.st.baselineHipY
            /\ lastJumpTime' = res.st.lastJumpTime
            /\ lastGestureTime' = res.st.lastGestureTime
            /\ gesture' = IF res.threw THEN gesture ELSE res.ret
            /\ crashed' = res.threw
            /\ obs' = [obs EXCEPT !.malformedCalls = @ + 1, !.calls = @ + 1]
            /\ UNCHANGED <<appVars, engineVars>>

\* well-formed samples one camera frame apart with malformed ones in between
NextMalformed ==
    \/ HarnessCalibrate
    \/ HarnessSample(JumpLandmarks, CalibrationPeriod)
    \/ HarnessMalformed

SpecMalformed == Init /\ [][NextMalformed]_vars

NextGesture == HarnessCalibrate \/ HarnessSample(JumpLandmarks, JumpPeriods)

SpecGesture == Init /\ [][NextGesture]_vars

\* nose.x on either side of, and on, the two lean thresholds
LeanNoses ==
    {LEAN_THRESHOLD_RIGHT - 1, LEAN_THRESHOLD_RIGHT, 50, LEAN_THRESHOLD_LEFT,
     LEAN_THRESHOLD_LEFT + 1}

\* after calibration: standing or jumping with the nose at any of LeanNoses,
\* or slightly risen
LeanLandmarks ==
    Postures({StandTorso, JumpTorso}, LeanNoses) \cup Postures({SlightTorso}, {50})

\* the next camera frame, or a sample just inside, on, or just outside
\* LANE_CHANGE_COOLDOWN
LeanPeriods ==
    {33, LANE_CHANGE_COOLDOWN - 1, LANE_CHANGE_COOLDOWN, LANE_CHANGE_COOLDOWN + 1}

NextLean == HarnessCalibrate \/ HarnessSample(LeanLandmarks, LeanPeriods)

SpecLean == Init /\ [][NextLean]_vars

\* ------------------------------------------------------------------------
\* Properties of the classifier, checked under SpecGesture
\* ------------------------------------------------------------------------

\* C6: a sustained displacement beyond the jump threshold that starts outside
\* both cooldown windows yields JUMP exactly once, however long it is held
\* (violated: the displacement still held when JUMP_COOLDOWN has run out
\* yields JUMP again, the baseline not following a displacement beyond the
\* drift band).
C6_OneJumpPerDisplacement ==
    (obs.dispStart # -1 /\ obs.dispFirstJump) => obs.dispJumps = 1

\* C7: any two JUMP results of one classifier are more than JUMP_COOLDOWN ms
\* apart; a displaced sample JUMP_COOLDOWN - 1 ms after a JUMP returns no JUMP.
C7_JumpCooldown ==
    /\ \A i \in 1..Len(obs.jumpLog) : \A j \in 1..Len(obs.jumpLog) :
           i < j => obs.jumpLog[j] - obs.jumpLog[i] > JUMP_COOLDOWN
    /\ (obs.dispStart # -1 /\ Len(obs.jumpLog) >= 1 /\ now - lastJumpTime = JUMP_COOLDOWN - 1)
           => gesture # "JUMP"

\* a displaced sample 799 ms after the only JUMP so far, which returned NONE
C7_Witness ==
    /\ obs.dispStart # -1
    /\ Len(obs.jumpLog) = 1
    /\ now - lastJumpTime = JUMP_COOLDOWN - 1
    /\ gesture = "NONE"

\* C8 (as stated): for 30 or more identical samples fed to a fresh classifier
\* every result is NONE and the baseline is the posture's torso-Y.
C8_IdenticalAllNone ==
    (obs.identical /\ obs.calls >= 1) =>
        /\ obs.allNone
        /\ baselineHipY = CurrentY(obs.first.at)

\* C8 (amended): the baseline is the posture's torso-Y after every sample;
\* every one of the first 30 samples returns NONE, and so does every later one
\* provided the posture's nose.x is within the lean thresholds [0.40, 0.60]
\* (an identical posture with the nose beyond a threshold returns LEFT or
\* RIGHT once calibration is over).
C8_IdenticalCalibration ==
    (obs.identical /\ obs.calls >= 1) =>
        /\ baselineHipY = CurrentY(obs.first.at)
        /\ (obs.calls <= 30 \/ obs.first.at[NOSE].x \in 40..60) => obs.allNone

\* more than 30 identical samples, all of which returned NONE
C8_Witness ==
    /\ obs.identical
    /\ obs.calls > CalibrationSamples
    /\ obs.allNone
    /\ baselineHipY = CurrentY(obs.first.at)

\* ------------------------------------------------------------------------
\* Properties of the session (Spec, SpecPlay, SpecLag)
\* ------------------------------------------------------------------------
\* the step runs updateGameLogic: a frame of the running, unpaused loop
Tick == lastTimeRef' # lastTimeRef /\ gameState' = gameState /\ ~isPausedRef

\* some obstacle of the player's lane is in the hit window while the player
\* is below the clearance height
Colliding ==
    \E i \in 1..Len(obstacles) :
        /\ obstacles[i].z > -1 * ZScale /\ obstacles[i].z < 1 * ZScale
        /\ obstacles[i].lane = playerState.lane
        /\ playerState.yPosition * 10 < 11 * HeightScale

\* every accepted hit is one life less, once its updater has been applied
LivesAccount == gameState.lives = InitialLives - obs.hits + Len(pendingHits)

\* C1: a tick with a collision outside the invincibility window queues
\* exactly one decrement of lives (applied by the next render) and stamps
\* lastHitTimeRef with the clock; a tick with a collision inside the window,
\* or with no collision, queues nothing and leaves lastHitTimeRef alone
C1_HitCostsOneLife ==
    [][/\ (Tick /\ Colliding') =>
           IF now - lastHitTimeRef > 2000
           THEN Len(pendingHits') = Len(pendingHits) + 1 /\ lastHitTimeRef' = now
           ELSE pendingHits' = pendingHits /\ lastHitTimeRef' = lastHitTimeRef
       /\ (Tick /\ ~Colliding') =>
           pendingHits' = pendingHits /\ lastHitTimeRef' = lastHitTimeRef
       /\ LivesAccount']_vars

\* a collision inside the invincibility window of the first hit was ignored
C1_Witness ==
    /\ obs.hits = 1 /\ gameState.lives = InitialLives - 1 /\ pendingHits = <<>>
    /\ Colliding /\ obs.frameAt = now
    /\ now > lastHitTimeRef /\ now - lastHitTimeRef <= INVINCIBILITY_DURATION

\* C2: three accepted hits (each more than INVINCIBILITY_DURATION after the
\* one before) leave lives = 0 and gameOver set; while gameOver stays set no
\* tick runs and score and lives do not change
C2_GameOverIsTerminal ==
    [][/\ (gameState.gameOver /\ gameState'.gameOver) =>
           /\ lastTimeRef' = lastTimeRef
           /\ scoreRef' = scoreRef
           /\ gameState'.score = gameState.score
           /\ gameState'.lives = gameState.lives
       /\ (obs.hits' = InitialLives /\ pendingHits' = <<>>) =>
           gameState'.lives = 0 /\ gameState'.gameOver
       /\ gameState'.gameOver => obs.hits' = InitialLives]_vars

\* the clock has advanced since the third hit ended the game
C2_Witness ==
    gameState.gameOver /\ obs.hits = InitialLives /\ gameState.lives = 0 /\ now > lastTimeRef

\* the obstacles of the list that the tick moves beyond z = 5
PassingIn(obsts, speed, dt) ==
    {i \in 1..Len(obsts) : obsts[i].z + speed * dt > 5 * ZScale}

\* C3: a tick adds 10 to the score for each obstacle it moves beyond z = 5,
\* and that obstacle is not in the list after the tick: no obstacle of the
\* list is beyond z = 5 or marked passed, so none is scored twice
C3_PassedScoresOnce ==
    [][/\ Tick =>
           LET passing == PassingIn(obstacles, speedRef', lastTimeRef' - lastTimeRef)
           IN  /\ scoreRef' = scoreRef + 10 * Cardinality(passing)
               /\ \A i \in passing : obstacles[i].id \notin IdsOf(obstacles')
       /\ \A i \in 1..Len(obstacles') :
              obstacles'[i].z <= 5 * ZScale /\ ~obstacles'[i].passed]_vars

\* obstacles have passed, one of them after hitting the player
C3_Witness == scoreRef >= 20 /\ obs.hits >= 1 /\ isPlayingRef

\* C4: every tick sets the speed to min(MAX_SPEED, START_SPEED + score / 50)
\* of the score it starts with (in units of 1 / SpeedScale), which is 15 at
\* score 0, 25 at score 500 and 40 at score 1300
C4_SpeedFromScore ==
    [][/\ Tick => speedRef' = Min(40 * 50, 15 * 50 + scoreRef)
       /\ Speed(0) = 15 * 50
       /\ Speed(500) = 25 * 50
       /\ Speed(1300) = 40 * 50]_vars

\* a tick has computed the speed of a positive score
C4_Witness == scoreRef >= 10 /\ speedRef > START_SPEED * SpeedScale /\ obs.frameAt = now

\* the step's commit called detectGesture
Classified == obs.poseUses' > (IF obs.poseAt' = obs.poseAt THEN obs.poseUses ELSE 0)

\* C5: the lane is 0, 1 or 2; a LEFT moves it down by one unless it is 0, a
\* RIGHT up by one unless it is 2, and nothing else moves it but the reset
\* to the middle lane when a session starts
C5_LaneClamped ==
    [][/\ playerState'.lane \in {0, 1, 2}
       /\ (Classified /\ gameState' = gameState /\ gesture' = "LEFT") =>
              playerState'.lane = IF playerState.lane = 0 THEN 0 ELSE playerState.lane - 1
       /\ (Classified /\ gameState' = gameState /\ gesture' = "RIGHT") =>
              playerState'.lane = IF playerState.lane = 2 THEN 2 ELSE playerState.lane + 1
       /\ (playerState'.lane # playerState.lane) =>
              \/ Classified /\ gesture' \in {"LEFT", "RIGHT"}
              \/ gameState' # gameState /\ playerState'.lane = 1]_vars

\* a second LEFT in a row arrived in lane 0 and left the player there
C5_Witness == gesture = "LEFT" /\ playerState.lane = 0 /\ Len(obs.gestureLog) = 2

\* C9: the player's height is at least 0 and at most JUMP_HEIGHT (violated:
\* a frame whose timestamp lies before the jumpStartTime stamped by the input
\* effect computes a negative jumpProgress and a negative height)
C9_HeightWithinJump ==
    /\ playerState.yPosition >= 0
    /\ playerState.yPosition * 10 <= JUMP_HEIGHT * HeightScale

\* C10: lives is 0..3, changes only by a decrement of 1 or by the reset to 3
\* of a start or restart, and gameOver is set exactly when lives is 0
C10_LivesAndGameOver ==
    [][/\ gameState'.lives \in 0..3
       /\ gameState'.gameOver <=> gameState'.lives = 0
       /\ \/ gameState'.lives = gameState.lives
          \/ gameState'.lives = gameState.lives - 1
          \/ /\ gameState'.lives = 3
             /\ ~gameState.isPlaying \/ gameState.gameOver
             /\ gameState'.isPlaying /\ ~gameState'.gameOver]_vars

\* the third hit took the last life and ended the game
C10_Witness == gameState.lives = 0 /\ gameState.gameOver /\ ~isPlayingRef

\* the dependencies of the init effect differ between the two states
SessionChange ==
    \/ gameState'.isPlaying # gameState.isPlaying
    \/ gameState'.gameOver # gameState.gameOver

\* the speed formula stays in [15, 40] and does not decrease over the scores
\* 0, 10, ..., 10 * MaxScoreSteps
SpeedFormulaInRange ==
    \A k \in 0..MaxScoreSteps :
        /\ Speed(10 * k) >= 15 * 50 /\ Speed(10 * k) <= 40 * 50
        /\ Speed(10 * k) <= Speed(10 * (k + 1))

\* C11: the speed lies in [START_SPEED, MAX_SPEED] = [15, 40]; it changes
\* only in a tick, to the value of the speed formula, which is not below the
\* speed before, or in the reset to START_SPEED of the init effect (start,
\* game over, restart); the formula stays in [15, 40] and does not decrease
\* over the scores 0, 10, ..., 10 * MaxScoreSteps
C11_SpeedInRange ==
    [][/\ speedRef' >= 15 * 50 /\ speedRef' <= 40 * 50
       /\ (speedRef' # speedRef) =>
              \/ Tick /\ speedRef' = Min(40 * 50, 15 * 50 + scoreRef) /\ speedRef' > speedRef
              \/ SessionChange /\ speedRef' = 15 * 50
       /\ SpeedFormulaInRange]_vars

\* a tick has raised the speed for the second time in a session
C11_Witness == speedRef >= 15 * 50 + 20 /\ scoreRef >= 20 /\ isPlayingRef

\* C12: while the game is paused no step changes the obstacles, the
\* decorations, the score, the lives, the speed, the player's lane, height or
\* jump flag, or the spawn and hit timestamps, and no pose sample is
\* classified: the classifier's state stays as it is
C12_PausedNothingChanges ==
    [][(gameState.isPaused /\ gameState'.isPaused) =>
           /\ UNCHANGED <<obstacles, decorations, scoreRef, speedRef, playerState>>
           /\ UNCHANGED <<lastSpawnTimeRef, lastDecorSpawnTimeRef, lastHitTimeRef>>
           /\ gameState'.score = gameState.score
           /\ gameState'.lives = gameState.lives
           /\ UNCHANGED <<gestureVars, gesture>>
           /\ ~Classified]_vars

\* paused, with a frame run and a sample delivered during the pause while
\* obstacles are on the track and the player is in the air
C12_Witness ==
    /\ gameState.isPaused
    /\ obs.pauseSteps >= 1
    /\ obs.frameAt = now
    /\ obs.poseAt = now
    /\ obstacles # <<>>
    /\ playerState.isJumping

\* the time, in ms, the jump in progress has run at a tick with timestamp
\* time when the paused time since its start is left out
JumpPlayed(time) == time - playerState.jumpStartTime - (obs.pausedMs - obs.jumpPausedMs)

\* C13: a pause takes no time from a jump in progress: at every tick the
\* player is in the air for as long as the unpaused time since the jump
\* started is below JUMP_DURATION, at the height of the arc for that time
C13_PauseStopsJumpTimer ==
    [][(/\ Tick
        /\ playerState.isJumping
        /\ JumpPlayed(lastTimeRef') >= 0
        /\ JumpPlayed(lastTimeRef') < JUMP_DURATION) =>
           /\ playerState'.isJumping
           /\ playerState'.yPosition = JumpArc(JumpPlayed(lastTimeRef'))]_vars

\* C14: the dt of every tick, the first one after a resume included, is the
\* time since the previous animation frame, one frame interval at most, and
\* no obstacle or decoration moves further in a tick than the speed times
\* that interval
C14_ResumeDtIsOneFrame ==
    [][Tick =>
           /\ lastTimeRef' - lastTimeRef <= ClockStep
           /\ \A i \in 1..Len(obstacles) : \A j \in 1..Len(obstacles') :
                  obstacles'[j].id = obstacles[i].id =>
                      obstacles'[j].z - obstacles[i].z <= speedRef' * ClockStep
           /\ \A i \in 1..Len(decorations) : \A j \in 1..Len(decorations') :
                  decorations'[j].id = decorations[i].id =>
                      decorations'[j].z - decorations[i].z <= speedRef' * ClockStep]_vars

\* a tick has run after the resume from a pause of two clock steps or more
\* while obstacles and decorations were on the track
C14_Witness ==
    /\ ~gameState.isPaused
    /\ obs.resumed = "ticked"
    /\ obs.pauseSteps >= 2
    /\ obstacles # <<>>
    /\ decorations # <<>>

\* the step starts a session: Start or Play Again
SessionStarts == SessionChange /\ LoopStarts(gameState')

\* C15: the step that starts or restarts a session leaves every piece of
\* owned state reset: score 0, lives 3, gameOver and isPaused false, no
\* obstacles, no decorations, speed START_SPEED, last-hit time 0, no pending
\* hit, and classifier and player as the input effect leaves them when it
\* runs once on the reset state (untouched when there is no pose sample);
\* no tick has run
C15_StartResetsEverything ==
    [][SessionStarts =>
           /\ gameState'.score = 0 /\ gameState'.lives = InitialLives
           /\ ~gameState'.gameOver /\ ~gameState'.isPaused
           /\ ~isPausedRef'
           /\ obstacles' = <<>> /\ decorations' = <<>>
           /\ scoreRef' = 0 /\ speedRef' = START_SPEED * SpeedScale
           /\ lastHitTimeRef' = 0 /\ pendingHits' = <<>>
           /\ lastTimeRef' = now /\ lastSpawnTimeRef' = now /\ lastDecorSpawnTimeRef' = now
           /\ IF poseData'.isNull
              THEN /\ hipYHistory' = <<>> /\ baselineHipY' = RInt(0)
                   /\ lastJumpTime' = 0 /\ lastGestureTime' = 0
                   /\ playerState' = InitialPlayer
              ELSE LET res == DetectGesture(ResetGestureState, poseData'.poseLandmarks, now)
                   IN  /\ hipYHistory' = res.st.hipYHistory
                       /\ baselineHipY' = res.st.baselineHipY
                       /\ lastJumpTime' = res.st.lastJumpTime
                       /\ lastGestureTime' = res.st.lastGestureTime
                       /\ Len(hipYHistory') = 1
                       /\ lastJumpTime' = 0 /\ lastGestureTime' = 0
                       /\ playerState' = InitialPlayer]_vars

\* a second session has just been started after a game over, with the last
\* pose sample of the first session classified as its first sample
C15_Witness ==
    /\ obs.sessions = 2
    /\ isPlayingRef
    /\ lastSpawnTimeRef = now
    /\ obstacles = <<>>
    /\ Len(hipYHistory) = 1

\* C16: no pose sample is classified a second time: detectGesture has been
\* called once at most with the sample poseData holds
C16_SampleClassifiedOnce == obs.poseUses <= 1

\* C17: a detectGesture call with a malformed sample does not throw, returns
\* NONE and leaves the calibration buffer, the baseline, lastJumpTime and
\* lastGestureTime as they were
C17_MalformedRejected ==
    [][obs'.malformedCalls > obs.malformedCalls =>
           /\ ~crashed'
           /\ gesture' = "NONE"
           /\ UNCHANGED gestureVars]_vars

\* C18: the live obstacles carry pairwise distinct ids, and so do the live
\* decorations
C18_IdsDistinct ==
    /\ \A i, j \in 1..Len(obstacles) : i # j => obstacles[i].id # obstacles[j].id
    /\ \A i, j \in 1..Len(decorations) : i # j => decorations[i].id # decorations[j].id

\* the obstacles of the list after a tick that the tick has spawned
SpawnedInTick == {j \in 1..Len(obstacles') : obstacles'[j].id \notin IdsOf(obstacles)}

\* C19 as stated: entities are advanced before new ones are inserted, so an
\* obstacle spawned in a tick is at exactly the spawn depth at the end of
\* that tick
C19_SpawnedAtSpawnDepth ==
    [][Tick => \A j \in SpawnedInTick : obstacles'[j].z = SPAWN_DISTANCE * ZScale]_vars

\* C19, amended: a tick classifies nothing (the classifier runs in the input
\* effect, between ticks); it recomputes the speed from the score the tick
\* starts with, then advances the player's jump, then spawns decorations if
\* due and advances them all, then spawns an obstacle if one is due, then advances every obstacle, the one just spawned included,
\* by speed * dt, and tests the collision of each obstacle on its advanced
\* position against the player as advanced in this tick
C19_TickOrder ==
    [][Tick =>
           LET dt == lastTimeRef' - lastTimeRef
           IN  /\ UNCHANGED <<gestureVars, gesture>>
               /\ speedRef' = Speed(scoreRef)
               /\ playerState' = JumpPhysics(playerState, lastTimeRef')
               /\ \A j \in SpawnedInTick :
                      obstacles'[j].z = SPAWN_DISTANCE * ZScale + speedRef' * dt
               /\ \A j \in 1..Len(decorations') :
                      IF decorations'[j].id \in IdsOf(decorations)
                      THEN \E i \in 1..Len(decorations) :
                               /\ decorations[i].id = decorations'[j].id
                               /\ decorations'[j].z = decorations[i].z + speedRef' * dt
                      ELSE decorations'[j].z = SPAWN_DISTANCE * ZScale + speedRef' * dt
               /\ \A j \in (1..Len(obstacles')) \ SpawnedInTick :
                      \E i \in 1..Len(obstacles) :
                          /\ obstacles[i].id = obstacles'[j].id
                          /\ obstacles'[j].z = obstacles[i].z + speedRef' * dt
               /\ obs.hits' > obs.hits =>
                      \E j \in 1..Len(obstacles') :
                          /\ InHitWindow(obstacles'[j].z)
                          /\ obstacles'[j].lane = playerState'.lane
                          /\ BelowClearance(playerState'.yPosition)]_vars

\* a tick has spawned an obstacle, which it has advanced by one frame, in a
\* session in which the player has been hit and has jumped
C19_Witness ==
    /\ lastTimeRef = now
    /\ isPlayingRef
    /\ obs.hits >= 1
    /\ lastJumpTime > 0
    /\ \E j \in 1..Len(obstacles) :
           obstacles[j].z = SPAWN_DISTANCE * ZScale + speedRef * ClockStep

\* C20: a JUMP returned while the player is in the air leaves the player
\* state as it is (jumpStartTime is not restarted); a JUMP returned while the
\* player is on the ground sets isJumping and jumpStartTime = now and nothing
\* else
C20_JumpIgnoredWhileJumping ==
    [][(Classified /\ ~crashed' /\ gesture' = "JUMP") =>
           IF playerState.isJumping
           THEN playerState' = playerState
           ELSE playerState' = [playerState EXCEPT !.isJumping = TRUE,
                                                   !.jumpStartTime = now]]_vars

\* a JUMP has just been returned while a jump started earlier is in progress
C20_Witness ==
    /\ gesture = "JUMP"
    /\ lastJumpTime = now
    /\ playerState.isJumping
    /\ playerState.jumpStartTime < now

\* the arc JUMP_HEIGHT * 4 * t * (1 - t) at t = p / 700, in 1/HeightScale
ArcAt(p) == 35 * 4 * p * (700 - p)

\* the arc is 0 at t = 0 and at t = 1 and has its maximum, JUMP_HEIGHT, at
\* t = 0.5 (every ms of the jump)
ArcShape ==
    /\ ArcAt(0) = 0
    /\ ArcAt(700) = 0
    /\ ArcAt(350) * 10 = 35 * HeightScale
    /\ \A p \in 0..700 : ArcAt(p) >= 0 /\ ArcAt(p) <= ArcAt(350)

\* C21: a tick with timestamp time that finds a jump in progress with
\* t = (time - jumpStartTime) / JUMP_DURATION in [0, 1) sets the height to
\* JUMP_HEIGHT * 4 * t * (1 - t) and leaves isJumping set; that value is 0 at
\* t = 0, JUMP_HEIGHT, its maximum, at t = 0.5, and 0 at t = 1
C21_JumpArc ==
    [][/\ (/\ Tick
           /\ playerState.isJumping
           /\ lastTimeRef' - playerState.jumpStartTime >= 0
           /\ lastTimeRef' - playerState.jumpStartTime < 700) =>
              /\ playerState'.isJumping
              /\ playerState'.yPosition = ArcAt(lastTimeRef' - playerState.jumpStartTime)
       /\ ArcShape]_vars

\* a tick has just set a height above 0 for a jump in progress
C21_Witness ==
    /\ playerState.isJumping
    /\ lastTimeRef > playerState.jumpStartTime
    /\ lastTimeRef - playerState.jumpStartTime < 700
    /\ playerState.yPosition > 0
    /\ obs.frameAt = now

\* a jump is in progress that ends within the modelled time
JumpInProgress ==
    /\ playerState.isJumping
    /\ playerState.jumpStartTime + JUMP_DURATION + ClockStep <= MaxPlaySteps * ClockStep

\* C22: a tick with timestamp time that finds a jump with
\* time - jumpStartTime >= JUMP_DURATION clears isJumping and sets the height
\* to 0, and with frames delivered every jump in progress leads to a state
\* with isJumping cleared and height 0
C22_JumpCompletes ==
    /\ [][(/\ Tick
            /\ playerState.isJumping
            /\ lastTimeRef' - playerState.jumpStartTime >= 700) =>
               /\ ~playerState'.isJumping
               /\ playerState'.yPosition = 0]_vars
    /\ (JumpInProgress ~> (~playerState.isJumping /\ playerState.yPosition = 0))

\* a tick has ended a jump
C22_Witness ==
    /\ ~playerState.isJumping
    /\ playerState.yPosition = 0
    /\ playerState.jumpStartTime > 0
    /\ lastTimeRef - playerState.jumpStartTime >= 700
    /\ obs.frameAt = now

\* detectGesture has just been called (classifier harness)
Called == obs.calls' = obs.calls + 1

\* C23: any two LEFT/RIGHT results are at least LANE_CHANGE_COOLDOWN apart; a
\* call less than LANE_CHANGE_COOLDOWN after the last lean returns NONE and
\* leaves lastGestureTime alone whatever the sample; a LEFT/RIGHT result sets
\* lastGestureTime to the timestamp of the call
C23_LeanDebounce ==
    [][/\ \A i \in 1..Len(obs.gestureLog') : \A j \in 1..Len(obs.gestureLog') :
              i < j => obs.gestureLog'[j] - obs.gestureLog'[i] >= 400
       /\ (Called /\ obs.gestureLog # <<>>
              /\ now' - obs.gestureLog[Len(obs.gestureLog)] < 400) =>
                 /\ gesture' = "NONE"
                 /\ lastGestureTime' = lastGestureTime
       /\ (Called /\ gesture' \in {"LEFT", "RIGHT"}) =>
                 /\ lastGestureTime' = now'
                 /\ obs.gestureLog' = Append(obs.gestureLog, now')]_vars

\* the call exactly LANE_CHANGE_COOLDOWN after a lean has returned the second
\* lean
C23_Witness ==
    /\ Len(obs.gestureLog) = 2
    /\ obs.gestureLog[2] - obs.gestureLog[1] = 400
    /\ lastGestureTime = now

\* torso-Y of the sample of the last direct call, in 1/100: the mean of the
\* y of both hips and both shoulders
SampleTorsoY ==
    Rat(obs.sample.at[LEFT_HIP].y + obs.sample.at[RIGHT_HIP].y
            + obs.sample.at[LEFT_SHOULDER].y + obs.sample.at[RIGHT_SHOULDER].y, 4)

\* the three conditions of a jump for the call that has just been made:
\* jumpDiff > JUMP_THRESHOLD_Y, timestamp - lastJumpTime > JUMP_COOLDOWN,
\* timestamp - lastGestureTime > LANE_CHANGE_COOLDOWN
JumpConditions ==
    /\ RLess(RInt(5), RSub(baselineHipY, SampleTorsoY'))
    /\ now' - lastJumpTime > 800
    /\ now' - lastGestureTime > 400

\* C24: a call of the calibrated classifier returns JUMP exactly when the
\* three conditions hold, whatever nose.x is; a call that returns JUMP sets
\* lastJumpTime to its timestamp, leaves lastGestureTime alone and yields
\* no lean
C24_JumpPriority ==
    [][(Called /\ Len(hipYHistory) >= 30) =>
          /\ gesture' = "JUMP" <=> JumpConditions
          /\ gesture' = "JUMP" =>
                 /\ lastJumpTime' = now'
                 /\ lastGestureTime' = lastGestureTime
                 /\ obs.gestureLog' = obs.gestureLog
                 /\ obs.jumpLog' = Append(obs.jumpLog, now')]_vars

\* a sample with the nose beyond a lean threshold has returned JUMP
C24_Witness ==
    /\ gesture = "JUMP"
    /\ lastJumpTime = now
    /\ obs.sample.defined
    /\ obs.sample.at[NOSE].x > 60
    /\ lastGestureTime < now

\* C25: a call of the calibrated classifier outside the lean cooldown that
\* does not return JUMP returns LEFT iff nose.x > 0.60, RIGHT iff
\* nose.x < 0.40 and NONE iff 0.40 <= nose.x <= 0.60
C25_LeanThresholds ==
    [][(/\ Called
        /\ Len(hipYHistory) >= 30
        /\ now' - lastGestureTime >= 400
        /\ gesture' # "JUMP") =>
           /\ gesture' = "LEFT" <=> obs.sample'.at[NOSE].x > 60
           /\ gesture' = "RIGHT" <=> obs.sample'.at[NOSE].x < 40
           /\ gesture' = "NONE" <=> (obs.sample'.at[NOSE].x >= 40 /\ obs.sample'.at[NOSE].x <= 60)]_vars

\* a sample with nose.x = 0.60, outside the cooldown, has returned NONE
C25_Witness ==
    /\ obs.calls > 30
    /\ obs.sample.defined
    /\ obs.sample.at[NOSE].x = 60
    /\ gesture = "NONE"
    /\ now - lastGestureTime >= 400

\* torso-Y of the sample of the call that has just been made minus the
\* baseline before the call, in 1/100
SampleOffset == RSub(SampleTorsoY', baselineHipY)

\* C26: a call of the calibrated classifier changes the baseline only if
\* |torso-Y - baseline| < 0.05, and then by 5% of torso-Y - baseline; with
\* |torso-Y - baseline| >= 0.05, and so with every sample that satisfies the
\* jump threshold, the baseline is unchanged; the calibration buffer is not
\* touched
C26_BaselineDrift ==
    [][(Called /\ Len(hipYHistory) >= 30) =>
          /\ RLess(RAbs(SampleOffset), RInt(5)) =>
                 RSub(baselineHipY', baselineHipY) = RDivInt(SampleOffset, 20)
          /\ ~RLess(RAbs(SampleOffset), RInt(5)) => baselineHipY' = baselineHipY
          /\ RLess(RInt(5), RNeg(SampleOffset)) => baselineHipY' = baselineHipY
          /\ hipYHistory' = hipYHistory]_vars

\* a slightly risen sample has moved the baseline of a standing calibration
\* towards itself
C26_Witness ==
    /\ obs.calls > 30
    /\ obs.sample.defined
    /\ obs.sample.at[LEFT_HIP].y = SlightTorso[1]
    /\ RLess(RInt(48), baselineHipY)
    /\ RLess(baselineHipY, RInt(50))

\* obstacle o, as a tick left it, is in the player's lane and inside the hit
\* window -1 < z < 1 while the player, as the tick left them, is below 1.1
Collides(o, player) ==
    /\ o.lane = player.lane
    /\ player.yPosition * 10 < 11 * HeightScale
    /\ o.z > -1 * ZScale
    /\ o.z < 1 * ZScale

\* C27: a tick costs a life only if, after the advance of the tick, some
\* obstacle is in the player's lane with -1 < z < 1 while the player's height
\* is below 1.1, and, the player not being invincible, it then does; an
\* obstacle in another lane, outside the window or passed at a height of 1.1
\* or more costs nothing
C27_Collision ==
    [][Tick =>
          /\ obs.hits' > obs.hits =>
                 \E i \in 1..Len(obstacles') : Collides(obstacles'[i], playerState')
          /\ ((\E i \in 1..Len(obstacles') : Collides(obstacles'[i], playerState'))
                 /\ now - lastHitTimeRef > 2000) => obs.hits' = obs.hits + 1
          /\ obs.hits' = obs.hits => lastHitTimeRef' = lastHitTimeRef]_vars

\* a tick has just accepted the hit of an obstacle in the player's lane and
\* inside the window, the player being below 1.1
C27_Witness ==
    /\ obs.frameAt = now
    /\ lastHitTimeRef = now
    /\ obs.hits >= 1
    /\ \E i \in 1..Len(obstacles) : Collides(obstacles[i], playerState)

\* C28: a tick with timestamp time accepts the hit of a colliding obstacle
\* iff time - lastHitTime > INVINCIBILITY_DURATION, and then sets lastHitTime
\* to time, the timestamp its jump progress and spawn timing use
C28_InvincibilityUsesTickTime ==
    [][Tick =>
          /\ obs.hits' > obs.hits <=>
                 /\ \E i \in 1..Len(obstacles') : Collides(obstacles'[i], playerState')
                 /\ lastTimeRef' - lastHitTimeRef > 2000
          /\ obs.hits' > obs.hits => lastHitTimeRef' = lastTimeRef']_vars

\* the tick's timestamp is more than 1500 / (speed / 15) ms after the last
\* spawn, speed being the speed of this tick (in 1/SpeedScale)
SpawnIntervalElapsed ==
    (lastTimeRef' - lastSpawnTimeRef) * speedRef' > 1500 * 15 * SpeedScale

\* C29: a tick spawns an obstacle iff its timestamp is more than
\* SPAWN_INTERVAL_BASE * 1000 / (speed / 15) ms after lastSpawnTime, never more
\* than one, and sets lastSpawnTime to its timestamp exactly then; the
\* obstacle is created in a lane of {0, 1, 2}, not passed, at z = -60 (from
\* where the same tick advances it by speed * dt)
C29_ObstacleSpawn ==
    [][Tick =>
          /\ Cardinality(SpawnedInTick) = (IF SpawnIntervalElapsed THEN 1 ELSE 0)
          /\ lastSpawnTimeRef' = (IF SpawnIntervalElapsed THEN lastTimeRef' ELSE lastSpawnTimeRef)
          /\ \A j \in SpawnedInTick :
                 /\ obstacles'[j].lane \in {0, 1, 2}
                 /\ ~obstacles'[j].passed
                 /\ obstacles'[j].z - speedRef' * (lastTimeRef' - lastTimeRef) = -60 * ZScale]_vars

\* a tick at a speed above the start speed has just spawned an obstacle in
\* the right lane
C29_Witness ==
    /\ obs.frameAt = now
    /\ lastSpawnTimeRef = now
    /\ speedRef > 15 * SpeedScale
    /\ \E i \in 1..Len(obstacles) :
           /\ obstacles[i].lane = 2
           /\ obstacles[i].z = -60 * ZScale + speedRef * ClockStep

\* the decorations of the list after a tick that the tick has spawned
DecorSpawnedInTick == {j \in 1..Len(decorations') : decorations'[j].id \notin IdsOf(decorations)}

\* C30 as stated: decorations are spawned two at a time at an interval that
\* does not change as score and speed rise: whenever the tick's timestamp is
\* more than one eighth of 1500 ms after lastDecorSpawnTime
C30_DecorIntervalFixed ==
    [][Tick =>
          Cardinality(DecorSpawnedInTick) =
              (IF (lastTimeRef' - lastDecorSpawnTimeRef) * 8 > 1500 THEN 2 ELSE 0)]_vars

\* C30, amended: a tick spawns two decorations iff its timestamp is more than
\* one eighth of the obstacle interval 1500 / (speed / 15) ms after
\* lastDecorSpawnTime, and none otherwise, and sets lastDecorSpawnTime to its
\* timestamp exactly then; the interval shrinks as the speed rises
C30_DecorSpawn ==
    [][Tick =>
          LET due == (lastTimeRef' - lastDecorSpawnTimeRef) * speedRef' * 8 > 1500 * 15 * SpeedScale
          IN  /\ Cardinality(DecorSpawnedInTick) = (IF due THEN 2 ELSE 0)
              /\ lastDecorSpawnTimeRef' = (IF due THEN lastTimeRef' ELSE lastDecorSpawnTimeRef)]_vars

\* at a speed above the start speed a tick 186 ms after the last decoration
\* spawn, less than the 187.5 ms of the start speed, has spawned two decorations
C30_Witness ==
    /\ obs.frameAt = now
    /\ lastTimeRef = now - DecorLag
    /\ lastDecorSpawnTimeRef = lastTimeRef
    /\ speedRef > 15 * SpeedScale
    /\ Cardinality({i \in 1..Len(decorations) :
            decorations[i].z = -60 * ZScale + speedRef * (ClockStep - DecorLag)}) = 2

\* how far a tick moves every entity, in 1/ZScale
TickAdvance == speedRef' * (lastTimeRef' - lastTimeRef)

\* the obstacles a tick has removed, as indices of the list before the tick
ObstaclesRemoved == {i \in 1..Len(obstacles) : obstacles[i].id \notin IdsOf(obstacles')}

\* C31: after every tick no live obstacle has z > 5 and no live decoration
\* has z > 20; a tick removes an obstacle exactly if the tick has moved it
\* beyond z = 5 and a decoration exactly if it has moved it beyond z = 20,
\* hit or not; the score changes by 10 per removed obstacle and by nothing
\* else, and a life is taken only with an obstacle colliding
C31_RemovalByThreshold ==
    [][Tick =>
          /\ \A i \in 1..Len(obstacles') : obstacles'[i].z <= 5 * ZScale
          /\ \A i \in 1..Len(decorations') : decorations'[i].z <= 20 * ZScale
          /\ \A i \in 1..Len(obstacles) :
                 i \in ObstaclesRemoved <=> obstacles[i].z + TickAdvance > 5 * ZScale
          /\ \A i \in 1..Len(decorations) :
                 decorations[i].id \notin IdsOf(decorations') <=>
                     decorations[i].z + TickAdvance > 20 * ZScale
          /\ scoreRef' = scoreRef + 10 * Cardinality(ObstaclesRemoved)
          /\ obs.hits' > obs.hits =>
                 \E i \in 1..Len(obstacles') : Collides(obstacles'[i], playerState')]_vars

\* a tick has just taken the second life of a session and the obstacle that
\* did it is still live, earlier obstacles having been removed and scored
C31_Witness ==
    /\ obs.frameAt = now
    /\ lastHitTimeRef = now
    /\ obs.hits = 2
    /\ scoreRef >= 10
    /\ \E i \in 1..Len(obstacles) : Collides(obstacles[i], playerState)

\* C32: no tick moves an obstacle from z <= -1 to z >= 1, past the hit window
\* -1 < z < 1 in which alone it is tested for collision
C32_NoWindowSkip ==
    [][Tick =>
          \A i \in 1..Len(obstacles) :
              ~(/\ obstacles[i].z <= -1 * ZScale
                /\ obstacles[i].z + TickAdvance >= 1 * ZScale)]_vars

\* the step commits the render that ends the game
GameEnds == gameState'.gameOver /\ ~gameState.gameOver

\* C33: the score stored in the session state at game over is the simulation
\* score at the end of the tick of the fatal hit: the updater queued by that
\* tick carries that score, the score does not move while the updater waits,
\* the render that ends the game stores it, and the reset to 0 that the init
\* effect performs in the same commit leaves the stored score as it is until
\* a restart
C33_GameOverScore ==
    [][/\ (lastTimeRef' # lastTimeRef /\ Len(pendingHits') > Len(pendingHits)) =>
              \A i \in (Len(pendingHits) + 1)..Len(pendingHits') :
                  pendingHits'[i] = scoreRef'
       /\ (pendingHits # <<>> /\ pendingHits' # <<>>) => scoreRef' = scoreRef
       /\ GameEnds =>
              /\ pendingHits # <<>>
              /\ gameState'.score = scoreRef
              /\ scoreRef' = 0
       /\ (gameState.gameOver /\ gameState'.gameOver) =>
              gameState'.score = gameState.score]_vars

\* the game is over with a stored score of 10 or more after the init effect
\* has reset the simulation score
C33_Witness ==
    /\ gameState.gameOver /\ ~isPlayingRef
    /\ gameState.score >= 10
    /\ scoreRef = 0

\* the call made in the state is the one right after a call that returned JUMP
AfterJump == gesture = "JUMP" /\ lastJumpTime = now /\ obs.jumpLog # <<>>

\* C34: a call that returns JUMP leaves lastGestureTime as it was, and none
\* returns JUMP LANE_CHANGE_COOLDOWN or less after a LEFT/RIGHT; the call
\* right after a JUMP, however soon, that does not itself return JUMP returns
\* LEFT for a nose beyond LEAN_THRESHOLD_LEFT and RIGHT for a nose below
\* LEAN_THRESHOLD_RIGHT, and stamps lastGestureTime
C34_LeanAfterJump ==
    [][(Called /\ Len(hipYHistory) >= 30) =>
          /\ gesture' = "JUMP" =>
                 /\ lastGestureTime' = lastGestureTime
                 /\ \A i \in 1..Len(obs.gestureLog) : now' - obs.gestureLog[i] > 400
          /\ (AfterJump /\ gesture' # "JUMP") =>
                 /\ obs.sample'.at[NOSE].x > 60 => gesture' = "LEFT"
                 /\ obs.sample'.at[NOSE].x < 40 => gesture' = "RIGHT"
                 /\ gesture' \in {"LEFT", "RIGHT"} => lastGestureTime' = now']_vars

\* a lean has been returned by the sample one camera frame after a JUMP
C34_Witness ==
    /\ gesture \in {"LEFT", "RIGHT"}
    /\ lastGestureTime = now
    /\ obs.jumpLog # <<>>
    /\ obs.jumpLog[Len(obs.jumpLog)] = now - 33
    /\ lastJumpTime = now - 33

\* the obstacles that the step's advance carries from z <= 5 to z > 5
CrossingPassLine ==
    {i \in 1..Len(obstacles) :
        /\ obstacles[i].z <= 5 * ZScale
        /\ obstacles[i].z + TickAdvance > 5 * ZScale}

\* C35: the simulation score and the stored score are non-negative multiples
\* of 10; no tick lowers the score; the score changes only in a tick, by 10
\* for each obstacle that the tick carries beyond z = 5, or by the reset to 0
\* of the init effect when a session starts or ends
C35_ScoreMonotone ==
    [][/\ scoreRef' >= 0 /\ scoreRef' % 10 = 0
       /\ gameState'.score >= 0 /\ gameState'.score % 10 = 0
       /\ Tick => scoreRef' >= scoreRef
       /\ scoreRef' > scoreRef =>
              /\ Tick
              /\ CrossingPassLine # {}
              /\ scoreRef' - scoreRef = 10 * Cardinality(CrossingPassLine)
       /\ scoreRef' < scoreRef => (SessionChange /\ scoreRef' = 0)]_vars

\* a tick has just scored the third obstacle of the session
C35_Witness ==
    /\ obs.frameAt = now /\ lastTimeRef = now
    /\ scoreRef = 30
    /\ isPlayingRef /\ ~gameState.gameOver
    /\ \A i \in 1..Len(obstacles) : obstacles[i].z <= 5 * ZScale

====
